---- MODULE Spec2Model ----
(***************************************************************************)
(* Attendance recording and validation pipeline of the HRM backend:        *)
(* src/controllers/attendanceController.js and src/utils/email.js.         *)
(*                                                                         *)
(* Time is counted in minutes since an epoch that falls on a local         *)
(* midnight; the local time zone is fixed.  Coordinates are counted in     *)
(* thousandths of a degree.  Face descriptor components are counted in     *)
(* tenths.                                                                 *)
(***************************************************************************)
EXTENDS Integers, Sequences, FiniteSets, TLC

VARIABLES
    now,            \* the wall clock (Date.now())
    allowedRadius,  \* the geofence radius read from the environment at start
    records,        \* the Attendance collection, in insertion order
    notifications,  \* the Notification collection, as a set of [userId, type]
    exitProc,       \* the recordExit requests in flight
    closeCount,     \* per record, the number of 200 responses of recordExit
    lastReq,        \* the request answered last
    lastResp,       \* the response given last
    call,           \* the helper or read-only handler evaluated last, with
                    \* its arguments and its result
    inbox           \* the Notification collection as documents, for the
                    \* operations of notificationController.js

vars == <<now, allowedRadius, records, notifications, exitProc, closeCount,
          lastReq, lastResp, call, inbox>>

-----------------------------------------------------------------------------
(* Bounds of the model *)

MaxRecords == 2

\* the size of the ledger in the specifications that vary the requests
MaxRecordsWide == 1

\* the length of a face descriptor (128 in the program)
DescLen == 2

\* the largest absolute value of a descriptor component, in tenths
MaxComponent == 2

\* the number of Notification documents ever created
MaxNotifications == 2

-----------------------------------------------------------------------------
(* Optional values: a field that is absent is the empty sequence *)

None == <<>>

Some(x) == <<x>>

-----------------------------------------------------------------------------
(* Time *)

Day == 24 * 60

FifteenMinutes == 15

SevenDays == 7 * 24 * 60

LateHour == 9

\* new Date(y, m, d) of a date: the local midnight that starts its day
DayStart(t) == t - (t % Day)

\* Date.prototype.getHours
getHours(t) == (t % Day) \div 60

\* The calendar: the epoch is 00:00 on 1 January of a common year, and these
\* are the days on which January, February, March and April start.
MonthFirstDays == <<0, 31, 59, 90>>

\* setHours(0, 0, 0, 0) followed by setDate(1)
StartOfMonth(t) ==
    LET m == CHOOSE k \in 1..(Len(MonthFirstDays) - 1) :
                 /\ MonthFirstDays[k] <= t \div Day
                 /\ t \div Day < MonthFirstDays[k + 1]
    IN  MonthFirstDays[m] * Day

\* setMonth(getMonth() + 1) on the first day of a month
StartOfNextMonth(t) ==
    LET m == CHOOSE k \in 1..(Len(MonthFirstDays) - 1) :
                 /\ MonthFirstDays[k] <= t \div Day
                 /\ t \div Day < MonthFirstDays[k + 1]
    IN  MonthFirstDays[m + 1] * Day

-----------------------------------------------------------------------------
(* The Employee collection and the authenticated principals *)

EmployeeIds == {"e1", "adm"}

Actors == {[id |-> "e1", role |-> "employee"], [id |-> "adm", role |-> "admin"]}

\* mongoose.Types.ObjectId.isValid / isMongoId
IsMongoId(id) == id \in {"e1", "adm", "ghost"}

\* Employee.find(), in the order of the collection
Directory == <<"e1", "adm">>

\* Employee.findById
EmployeeExists(id) == id \in EmployeeIds

\* employee.hireDate (default: Date.now at registration): e1 was hired on
\* day 10 at 08:00, the admin on day 1
hireDate(id) == IF id = "e1" THEN 10 * Day + 8 * 60 ELSE 0

\* employee.faceDescriptor (default: undefined)
faceDescriptor(id) == IF id = "e1" THEN Some([i \in 1..DescLen |-> 0]) ELSE None

-----------------------------------------------------------------------------
(* Temporal admissibility: the custom validator of each middleware chain.  *)
(* Each returns "ok" or the name of the error it throws.                   *)

\* the validator without its check of the calendar date
validateWithoutDate(value, t, role) ==
    LET timeDiff == value - t IN
    IF timeDiff > FifteenMinutes THEN "future"
    ELSE IF role # "admin" /\ timeDiff < -FifteenMinutes THEN "past_time"
    ELSE IF role = "admin" /\ timeDiff < -SevenDays THEN "too_old"
    ELSE "ok"

\* a validator that checks only the format of the time
validateFormatOnly(value, t, role) == "ok"

\* validateRecordAttendance, body("entryTime").custom
validateRecordAttendance(value, t, role) ==
    LET timeDiff == value - t IN
    IF timeDiff > FifteenMinutes THEN "future"
    ELSE IF role # "admin" /\ DayStart(value) < DayStart(t) THEN "past_date"
    ELSE IF role # "admin" /\ timeDiff < -FifteenMinutes THEN "past_time"
    ELSE IF role = "admin" /\ timeDiff < -SevenDays THEN "too_old"
    ELSE "ok"

\* validateExitAttendance, body("exitTime").custom
validateExitAttendance(value, t, role) ==
    LET timeDiff == value - t IN
    IF timeDiff > FifteenMinutes THEN "future"
    ELSE IF role # "admin" /\ DayStart(value) < DayStart(t) THEN "past_date"
    ELSE IF role # "admin" /\ timeDiff < -FifteenMinutes THEN "past_time"
    ELSE IF role = "admin" /\ timeDiff < -SevenDays THEN "too_old"
    ELSE "ok"

\* validateScanQr, body("entryTime").custom
validateScanQr(value, t, role) ==
    LET timeDiff == value - t IN
    IF timeDiff > FifteenMinutes THEN "future"
    ELSE IF role # "admin" /\ DayStart(value) < DayStart(t) THEN "past_date"
    ELSE IF role # "admin" /\ timeDiff < -FifteenMinutes THEN "past_time"
    ELSE IF role = "admin" /\ timeDiff < -SevenDays THEN "too_old"
    ELSE "ok"

\* validateFacialAttendance, body("entryTime").custom
validateFacialAttendance(value, t, role) ==
    LET timeDiff == value - t IN
    IF timeDiff > FifteenMinutes THEN "future"
    ELSE IF role # "admin" /\ DayStart(value) < DayStart(t) THEN "past_date"
    ELSE IF role # "admin" /\ timeDiff < -FifteenMinutes THEN "past_time"
    ELSE IF role = "admin" /\ timeDiff < -SevenDays THEN "too_old"
    ELSE "ok"

-----------------------------------------------------------------------------
(* Geofence *)

\* allowedLocation, in thousandths of a degree
allowedLocation == [lng |-> 8836, lat |-> 33124]

DefaultRadius == 500

MetersPerDegree == 111000

\* parseInt(process.env.ALLOWED_RADIUS) || 500.  env is None when the variable
\* is unset or not a number (parseInt gives NaN), else Some(n).
ParseRadius(env) == IF env = None \/ env[1] = 0 THEN DefaultRadius ELSE env[1]

\* the comparison with the boundary excluded (distance >= allowedRadius)
LocationNotInside(loc, radius) ==
    LET dx == loc[1] - allowedLocation.lng
        dy == loc[2] - allowedLocation.lat
        k  == MetersPerDegree \div 1000
    IN  radius < 0 \/ (dx * dx + dy * dy) * k * k >= radius * radius

\* distance > allowedRadius, where
\*   distance = Math.sqrt(dx^2 + dy^2) * 111000   (dx, dy in degrees).
\* With dx, dy in thousandths of a degree the distance is sqrt(dx^2+dy^2) * 111;
\* it is never negative, so it exceeds every negative radius, and it exceeds a
\* radius r >= 0 iff its square exceeds r^2.
LocationOutside(loc, radius) ==
    LET dx == loc[1] - allowedLocation.lng
        dy == loc[2] - allowedLocation.lat
        k  == MetersPerDegree \div 1000
    IN  radius < 0 \/ (dx * dx + dy * dy) * k * k > radius * radius

-----------------------------------------------------------------------------
(* Face matching *)

FaceThresholdTenths == 6

RECURSIVE SumSquares(_, _, _)
\* descriptor1.reduce((sum, val, i) => sum + Math.pow(val - descriptor2[i], 2), 0)
SumSquares(d1, d2, i) ==
    IF i > Len(d1) THEN 0
    ELSE (d1[i] - d2[i]) * (d1[i] - d2[i]) + SumSquares(d1, d2, i + 1)

\* the distance of the first descriptor from the origin
calculateNorm(descriptor1, descriptor2) ==
    IF descriptor1 = None \/ descriptor2 = None
       \/ Len(descriptor1[1]) # Len(descriptor2[1])
    THEN [inf |-> TRUE, sq |-> 0]
    ELSE [inf |-> FALSE,
          sq  |-> SumSquares(descriptor1[1],
                             [i \in DOMAIN descriptor1[1] |-> 0], 1)]

\* calculateDistance.  A descriptor argument is None (absent) or Some(vector).
\* The result is Infinity, or the square of the distance in hundredths.
calculateDistance(descriptor1, descriptor2) ==
    IF descriptor1 = None \/ descriptor2 = None
       \/ Len(descriptor1[1]) # Len(descriptor2[1])
    THEN [inf |-> TRUE, sq |-> 0]
    ELSE [inf |-> FALSE, sq |-> SumSquares(descriptor1[1], descriptor2[1], 1)]

\* the comparison applied to finite distances only
FaceRejectedFinite(distance) ==
    ~distance.inf /\ distance.sq >= FaceThresholdTenths * FaceThresholdTenths

\* distance >= 0.6
FaceRejected(distance) ==
    distance.inf \/ distance.sq >= FaceThresholdTenths * FaceThresholdTenths

-----------------------------------------------------------------------------
(* Policy notifier: src/utils/email.js *)

\* sendEmailAndNotify.  outcome is what the mail transport and the store do:
\* "ok", "mail_fail" (sendMail rejects) or "save_fail" (notification.save
\* rejects).  userId and type are "" when no notificationData is passed.
sendEmailAndNotify(userId, type, outcome) ==
    [threw |-> outcome # "ok",
     saved |-> IF outcome = "ok" /\ userId # "" /\ type # ""
               THEN {[userId |-> userId, type |-> type]}
               ELSE {}]

-----------------------------------------------------------------------------
(* The Notification collection: src/models/Notification.js and            *)
(* src/controllers/notificationController.js                               *)

ThirtyDays == 30 * Day

\* the collection: its documents and the number of ids given out
NoDocuments == [docs |-> {}, created |-> 0]

\* new Notification({userId, message, type}).save(): read defaults to false
\* and timestamp to Date.now
SaveNotification(box, userId, type, t) ==
    [docs    |-> box.docs \cup {[id |-> box.created + 1, userId |-> userId,
                                  type |-> type, read |-> FALSE, timestamp |-> t]},
     created |-> box.created + 1]

\* findByIdAndUpdate(notificationId, {read: true})
markAsRead(box, notificationId) ==
    [box EXCEPT !.docs = {IF d.id = notificationId THEN [d EXCEPT !.read = TRUE]
                          ELSE d : d \in box.docs}]

\* updateMany({userId, read: false}, {read: true})
markAllAsRead(box, userId) ==
    [box EXCEPT !.docs = {IF d.userId = userId /\ ~d.read
                          THEN [d EXCEPT !.read = TRUE]
                          ELSE d : d \in box.docs}]

\* the sweep without the condition on read
DeleteOldRegardless(box, t) ==
    [box EXCEPT !.docs = {d \in box.docs : ~(d.timestamp < t - ThirtyDays)}]

\* deleteMany({timestamp: {$lt: thirtyDaysAgo}, read: true})
deleteOldNotifications(box, t) ==
    [box EXCEPT !.docs = {d \in box.docs :
                             ~(d.timestamp < t - ThirtyDays /\ d.read)}]

-----------------------------------------------------------------------------
(* Requests and responses *)

Methods == {"manual", "qr", "facial"}

NoToken == [parses |-> FALSE, employeeId |-> "none", timestamp |-> None,
            expiresAt |-> None]

\* a response: the status code, which return statement gave it, whether
\* attendance.save() was reached, and the notifications stored on the way
Resp(status, reason, save, notes) ==
    [status |-> status, reason |-> reason, save |-> save, notes |-> notes]

\* the employee a request is about (the QR adapter takes it from the token)
Target(req) == IF req.kind = "qr" THEN req.qr.employeeId ELSE req.employeeId

\* the tail with a failure of the notifier swallowed on the rejecting path, so
\* that the handler goes on to save
GeofenceSwallowSave(req, employeeId, radius) ==
    IF LocationOutside(req.loc, radius)
    THEN LET n == sendEmailAndNotify(employeeId, "location_issue", req.notifier)
         IN  IF n.threw THEN Resp(201, "created", TRUE, n.saved)
             ELSE Resp(400, "location", FALSE, n.saved)
    ELSE IF getHours(req.time) >= LateHour
    THEN LET n == sendEmailAndNotify(employeeId, "late_arrival", req.notifier)
         IN  IF n.threw THEN Resp(500, "server_error", FALSE, n.saved)
             ELSE Resp(201, "created", TRUE, n.saved)
    ELSE Resp(201, "created", TRUE, {})

\* the tail with the record saved before the late-attendance notification
GeofenceSaveLate(req, employeeId, radius) ==
    IF LocationOutside(req.loc, radius)
    THEN LET n == sendEmailAndNotify(employeeId, "location_issue", req.notifier)
         IN  IF n.threw THEN Resp(500, "server_error", FALSE, n.saved)
             ELSE Resp(400, "location", FALSE, n.saved)
    ELSE IF getHours(req.time) >= LateHour
    THEN LET n == sendEmailAndNotify(employeeId, "late_arrival", req.notifier)
         IN  IF n.threw THEN Resp(500, "server_error", TRUE, n.saved)
             ELSE Resp(201, "created", TRUE, n.saved)
    ELSE Resp(201, "created", TRUE, {})

\* the common tail of the three capture adapters: location validation, late
\* attendance notification, new Attendance(...).save(), 201
GeofenceLateSave(req, employeeId, radius) ==
    IF LocationOutside(req.loc, radius)
    THEN LET n == sendEmailAndNotify(employeeId, "location_issue", req.notifier)
         IN  IF n.threw THEN Resp(500, "server_error", FALSE, n.saved)
             ELSE Resp(400, "location", FALSE, n.saved)
    ELSE IF getHours(req.time) >= LateHour
    THEN LET n == sendEmailAndNotify(employeeId, "late_arrival", req.notifier)
         IN  IF n.threw THEN Resp(500, "server_error", FALSE, n.saved)
             ELSE Resp(201, "created", TRUE, n.saved)
    ELSE Resp(201, "created", TRUE, {})

\* recordAttendance (manual capture)
recordAttendance(req, t, radius) ==
    IF \/ ~IsMongoId(req.employeeId)
       \/ validateRecordAttendance(req.time, t, req.actor.role) # "ok"
       \/ req.method \notin Methods
    THEN Resp(400, "validation", FALSE, {})
    ELSE IF ~EmployeeExists(req.employeeId)
    THEN Resp(404, "employee_not_found", FALSE, {})
    ELSE IF req.actor.id # req.employeeId /\ req.actor.role # "admin"
    THEN Resp(403, "access_denied", FALSE, {})
    ELSE GeofenceLateSave(req, req.employeeId, radius)

FiveMinutes == 5

TwelveHours == 12 * 60

\* generateQrCode: the payload JSON.stringify({employeeId, timestamp, expiresAt})
generateQrCode(employeeId, t) ==
    [parses |-> TRUE, employeeId |-> employeeId, timestamp |-> Some(t),
     expiresAt |-> Some(t + TwelveHours)]

\* Date.now() - timestamp > 5 * 60 * 1000; a missing timestamp makes the
\* difference NaN and the comparison false
QrExpired(token, t) ==
    token.timestamp # None /\ t - token.timestamp[1] > FiveMinutes

\* scanQrCode (QR capture)
scanQrCode(req, t, radius) ==
    IF validateScanQr(req.time, t, req.actor.role) # "ok"
    THEN Resp(400, "validation", FALSE, {})
    ELSE IF ~req.qr.parses
    THEN Resp(400, "qr_format", FALSE, {})
    ELSE IF ~IsMongoId(req.qr.employeeId)
    THEN Resp(400, "qr_employee", FALSE, {})
    ELSE IF req.actor.id # req.qr.employeeId /\ req.actor.role # "admin"
    THEN Resp(403, "access_denied", FALSE, {})
    ELSE IF ~EmployeeExists(req.qr.employeeId)
    THEN Resp(404, "employee_not_found", FALSE, {})
    ELSE IF QrExpired(req.qr, t)
    THEN LET n == sendEmailAndNotify(req.qr.employeeId, "expired_qr", req.notifier)
         IN  IF n.threw THEN Resp(500, "server_error", FALSE, n.saved)
             ELSE Resp(401, "expired_qr", FALSE, n.saved)
    ELSE GeofenceLateSave(req, req.qr.employeeId, radius)

\* facialAttendance (facial capture)
facialAttendance(req, t, radius) ==
    IF \/ ~IsMongoId(req.employeeId)
       \/ Len(req.face) # DescLen
       \/ validateFacialAttendance(req.time, t, req.actor.role) # "ok"
    THEN Resp(400, "validation", FALSE, {})
    ELSE IF ~EmployeeExists(req.employeeId) \/ faceDescriptor(req.employeeId) = None
    THEN Resp(401, "no_descriptor", FALSE, {})
    ELSE IF FaceRejected(calculateDistance(Some(req.face),
                                           faceDescriptor(req.employeeId)))
    THEN Resp(401, "face_not_recognized", FALSE, {})
    ELSE IF req.actor.id # req.employeeId /\ req.actor.role # "admin"
    THEN Resp(403, "access_denied", FALSE, {})
    ELSE GeofenceLateSave(req, req.employeeId, radius)

\* the adapter that serves a capture request
Capture(req, t, radius) ==
    CASE req.kind = "manual" -> recordAttendance(req, t, radius)
      [] req.kind = "qr"     -> scanQrCode(req, t, radius)
      [] req.kind = "facial" -> facialAttendance(req, t, radius)

\* new Attendance({employee, entryTime, location, method})
NewAttendance(req) ==
    [employee     |-> Target(req),
     entryTime    |-> req.time,
     location     |-> req.loc,
     method       |-> IF req.kind = "manual" THEN req.method ELSE req.kind,
     exitTime     |-> None,
     exitLocation |-> None]

-----------------------------------------------------------------------------
(* recordExit *)

\* startDate and endDate of the search: the last 7 days for an admin, today
\* for everyone else (setHours(0,0,0,0) and setHours(23,59,59,999))
ExitWindow(t, role) ==
    IF role = "admin"
    THEN [startDate |-> DayStart(t - SevenDays), endDate |-> DayStart(t) + Day - 1]
    ELSE [startDate |-> DayStart(t), endDate |-> DayStart(t) + Day - 1]

\* the query with the sort ascending: one of the earliest open records
FindOldestOpenAttendance(recs, employeeId, w) ==
    LET match == {i \in DOMAIN recs :
                     /\ recs[i].employee = employeeId
                     /\ recs[i].entryTime >= w.startDate
                     /\ recs[i].entryTime <= w.endDate
                     /\ recs[i].exitTime = None}
    IN  {i \in match : \A j \in match : recs[j].entryTime >= recs[i].entryTime}

\* the query without its exitTime condition: one of the latest records of
\* the window, open or closed
FindLatestAttendance(recs, employeeId, w) ==
    LET match == {i \in DOMAIN recs :
                     /\ recs[i].employee = employeeId
                     /\ recs[i].entryTime >= w.startDate
                     /\ recs[i].entryTime <= w.endDate}
    IN  {i \in match : \A j \in match : recs[j].entryTime <= recs[i].entryTime}

\* Attendance.findOne({employee, entryTime: {$gte, $lte},
\*                     exitTime: {$exists: false}}).sort({entryTime: -1}):
\* the ids the query may return (one of the latest open records in the window)
FindOpenAttendance(recs, employeeId, w) ==
    LET match == {i \in DOMAIN recs :
                     /\ recs[i].employee = employeeId
                     /\ recs[i].entryTime >= w.startDate
                     /\ recs[i].entryTime <= w.endDate
                     /\ recs[i].exitTime = None}
    IN  {i \in match : \A j \in match : recs[j].entryTime <= recs[i].entryTime}

\* recordExit up to the await of findOne: the response it gives, or "found"
recordExitLookup(req, recs, t) ==
    IF \/ ~IsMongoId(req.employeeId)
       \/ validateExitAttendance(req.time, t, req.actor.role) # "ok"
    THEN Resp(400, "validation", FALSE, {})
    ELSE IF ~EmployeeExists(req.employeeId)
    THEN Resp(404, "employee_not_found", FALSE, {})
    ELSE IF FindOpenAttendance(recs, req.employeeId, ExitWindow(t, req.actor.role)) = {}
    THEN Resp(400, "no_entry", FALSE, {})
    ELSE Resp(0, "found", FALSE, {})

\* the comparison without its equality
ExitBeforeEntry(exitTime, entryTime) == exitTime < entryTime

\* exitDateTime <= entryDateTime
ExitNotAfterEntry(exitTime, entryTime) == exitTime <= entryTime

\* the exit time assigned to entryTime as well
SetExitAndEntry(rec, exitTime, loc) ==
    [rec EXCEPT !.entryTime = exitTime, !.exitTime = Some(exitTime),
                !.exitLocation = Some(loc)]

\* existingAttendance.exitTime = ...; existingAttendance.exitLocation = ...;
\* save() writes the two modified paths of the stored document
SetExit(rec, exitTime, loc) ==
    [rec EXCEPT !.exitTime = Some(exitTime), !.exitLocation = Some(loc)]

\* recordExit after findOne: doc is the document as it was read
recordExitUpdate(req, doc) ==
    IF ExitNotAfterEntry(req.time, doc.entryTime)
    THEN Resp(400, "exit_not_after_entry", FALSE, {})
    ELSE LET n == sendEmailAndNotify("", "", req.notifier)
         IN  Resp(200, "exit_recorded", TRUE, n.saved)

-----------------------------------------------------------------------------
(* Presence reports *)

Periods == {"daily", "weekly", "monthly"}

\* a query on entryTime: None, or [gte, lte]
Between(gte, lte) == Some([gte |-> gte, lte |-> lte])

\* Attendance.find(query): the records of the employee that the range admits
FindAttendance(recs, employeeId, range) ==
    {i \in DOMAIN recs :
        /\ recs[i].employee = employeeId
        /\ range # None => /\ recs[i].entryTime >= range[1].gte
                           /\ recs[i].entryTime <= range[1].lte}

EmptyReport == [totalDays |-> 0, totalHours |-> 0, lateDays |-> 0]

\* the aggregation that counts every selected record as late
CountAllLate(report, rec) ==
    [totalDays  |-> report.totalDays + 1,
     lateDays   |-> report.lateDays + 1,
     totalHours |-> IF rec.exitTime # None
                    THEN report.totalHours + (rec.exitTime[1] - rec.entryTime)
                    ELSE report.totalHours]

\* the body of attendanceRecords.forEach: entryTime is required by the
\* schema, so every record has one.  totalHours is counted in minutes.
AddRecord(report, rec) ==
    [totalDays  |-> report.totalDays + 1,
     lateDays   |-> IF getHours(rec.entryTime) >= LateHour
                    THEN report.lateDays + 1 ELSE report.lateDays,
     totalHours |-> IF rec.exitTime # None
                    THEN report.totalHours + (rec.exitTime[1] - rec.entryTime)
                    ELSE report.totalHours]

RECURSIVE Aggregate(_, _, _)
\* attendanceRecords.forEach(...) over the selected records, from index i on
Aggregate(recs, selected, i) ==
    IF i > Len(recs) THEN EmptyReport
    ELSE IF i \in selected
    THEN AddRecord(Aggregate(recs, selected, i + 1), recs[i])
    ELSE Aggregate(recs, selected, i + 1)

\* the range getPresenceReport builds from the query string
PresenceRange(q) ==
    IF q.period = "weekly"
    THEN Between(DayStart(q.startDate[1]), DayStart(q.startDate[1]) + 7 * Day)
    ELSE IF q.period = "monthly"
    THEN Between(StartOfMonth(q.startDate[1]), StartOfNextMonth(q.startDate[1]))
    ELSE IF q.startDate # None /\ q.endDate # None
    THEN Between(q.startDate[1], q.endDate[1])
    ELSE None

\* getPresenceReport: the status and, on 200, the records selected and the
\* report
getPresenceReport(employeeId, q, recs) ==
    IF ~IsMongoId(employeeId) \/ q.period \notin Periods \/ q.startDate = None
    THEN [status |-> 400, selected |-> {}, report |-> EmptyReport]
    ELSE IF ~EmployeeExists(employeeId)
    THEN [status |-> 404, selected |-> {}, report |-> EmptyReport]
    ELSE LET selected == FindAttendance(recs, employeeId, PresenceRange(q))
         IN  [status |-> 200, selected |-> selected,
              report |-> Aggregate(recs, selected, 1)]

\* no range: every record of the employee
WholeLedger(employeeId, q, t) == None

\* the range getAllPresenceReports builds for one employee
FleetRange(employeeId, q, t) ==
    IF q.period = "none" /\ q.startDate = None /\ q.endDate = None
    THEN Between(DayStart(hireDate(employeeId)), DayStart(t) + Day - 1)
    ELSE IF q.period = "weekly" /\ q.startDate # None
    THEN Between(DayStart(q.startDate[1]), DayStart(q.startDate[1]) + 7 * Day)
    ELSE IF q.period = "monthly" /\ q.startDate # None
    THEN Between(StartOfMonth(q.startDate[1]), StartOfNextMonth(q.startDate[1]))
    ELSE IF q.startDate # None /\ q.endDate # None
    THEN Between(q.startDate[1], q.endDate[1])
    ELSE None

\* getAllPresenceReports: one report pushed per employee of the directory
getAllPresenceReports(q, recs, t) ==
    [k \in DOMAIN Directory |->
        LET selected == FindAttendance(recs, Directory[k],
                                       FleetRange(Directory[k], q, t))
        IN  [employeeId |-> Directory[k], selected |-> selected,
             report |-> Aggregate(recs, selected, 1)]]

-----------------------------------------------------------------------------
(* Listing *)

ListLimit == 7

RECURSIVE NewestFirst(_, _, _)
\* Attendance.find({employee}).sort({createdAt: -1}): the records of the
\* employee from index i down, latest created first.  The ledger is in
\* insertion order, which is the order of createdAt.
NewestFirst(recs, employeeId, i) ==
    IF i = 0 THEN <<>>
    ELSE IF recs[i].employee = employeeId
    THEN <<i>> \o NewestFirst(recs, employeeId, i - 1)
    ELSE NewestFirst(recs, employeeId, i - 1)

\* .limit(7)
Limit(list, n) == IF Len(list) <= n THEN list ELSE SubSeq(list, 1, n)

\* getAttendance: the status and, on 200, the records listed.  The limit of
\* the query string is not read.
getAttendance(employeeId, limit, actor, recs) ==
    IF ~IsMongoId(employeeId)
    THEN [status |-> 400, list |-> <<>>]
    ELSE IF actor.id # employeeId /\ actor.role # "admin"
    THEN [status |-> 403, list |-> <<>>]
    ELSE [status |-> 200,
          list |-> Limit(NewestFirst(recs, employeeId, Len(recs)), ListLimit)]

-----------------------------------------------------------------------------
(* State machine *)

ExitProcs == {1, 2}

NoReq == [kind |-> "none", actor |-> [id |-> "none", role |-> "none"],
          employeeId |-> "none", time |-> 0, loc |-> <<0, 0>>,
          method |-> "none", qr |-> NoToken, face |-> <<>>, notifier |-> "ok"]

NoResp == [status |-> 0, reason |-> "none", at |-> 0]

NoCall == [fn |-> "none"]

Idle == [pc |-> "idle", req |-> NoReq, id |-> 0, doc |-> None, at |-> 0]

\* the instants at which requests arrive
StartOfDay10 == 10 * Day

Instants == {StartOfDay10 + 8 * 60 + 50,       \* 08:50
             StartOfDay10 + 17 * 60,           \* 17:00
             StartOfDay10 + Day + 5}           \* 00:05 the next day

Center == <<allowedLocation.lng, allowedLocation.lat>>

At(dx, dy) == <<allowedLocation.lng + dx, allowedLocation.lat + dy>>

Probe(v) == [i \in 1..DescLen |-> IF i = 1 THEN v ELSE 0]

Answer(req, out) ==
    /\ lastReq' = req
    /\ lastResp' = [status |-> out.status, reason |-> out.reason, at |-> now]

\* a capture request is served: one of the three adapters, as one step
Serve(in, req) ==
    LET out == Capture(req, now, allowedRadius) IN
    /\ out.save => Len(records) < in.cap
    /\ records' = IF out.save THEN Append(records, NewAttendance(req)) ELSE records
    /\ closeCount' = IF out.save THEN Append(closeCount, 0) ELSE closeCount
    /\ notifications' = notifications \cup out.notes
    /\ Answer(req, out)
    /\ UNCHANGED <<now, allowedRadius, exitProc, call, inbox>>

\* POST /attendance
RecordAttendance(in) ==
    \E actor \in in.actors, target \in in.targets, off \in in.offsets,
       loc \in in.locs, method \in in.methods, nf \in in.notifiers :
        Serve(in, [kind |-> "manual", actor |-> actor, employeeId |-> target,
               time |-> now + off, loc |-> loc, method |-> method,
               qr |-> NoToken, face |-> <<>>, notifier |-> nf])

\* the payload a client submits: one that generateQrCode issued tok.age
\* minutes ago, or one put together by hand (not JSON, or an object with or
\* without a numeric timestamp and without expiresAt)
Payload(tok, t) ==
    IF tok.issued
    THEN generateQrCode(tok.employeeId, t - tok.age[1])
    ELSE [parses |-> tok.parses, employeeId |-> tok.employeeId,
          timestamp |-> IF tok.age = None THEN None ELSE Some(t - tok.age[1]),
          expiresAt |-> None]

\* POST /attendance/scan-qr
ScanQrCode(in) ==
    \E actor \in in.actors, tok \in in.tokens, off \in in.offsets,
       loc \in in.locs, nf \in in.notifiers :
        Serve(in, [kind |-> "qr", actor |-> actor, employeeId |-> "none",
               time |-> now + off, loc |-> loc, method |-> "none",
               qr |-> Payload(tok, now),
               face |-> <<>>, notifier |-> nf])

\* POST /attendance/facial
FacialAttendance(in) ==
    \E actor \in in.actors, target \in in.targets, off \in in.offsets,
       loc \in in.locs, face \in in.faces, nf \in in.notifiers :
        Serve(in, [kind |-> "facial", actor |-> actor, employeeId |-> target,
               time |-> now + off, loc |-> loc, method |-> "none",
               qr |-> NoToken, face |-> face, notifier |-> nf])

\* POST /attendance/exit, up to the await of findOne.  A request in flight
\* takes the lowest free slot of exitProc.
RecordExitFind(in, p) ==
    \E actor \in in.exit.actors, target \in in.exit.targets,
       off \in in.exit.offsets, loc \in in.exit.locs, nf \in in.exit.notifiers :
        LET req == [kind |-> "exit", actor |-> actor, employeeId |-> target,
                    time |-> now + off, loc |-> loc, method |-> "none",
                    qr |-> NoToken, face |-> <<>>, notifier |-> nf]
            out == recordExitLookup(req, records, now)
        IN  /\ exitProc[p].pc = "idle"
            /\ \A q \in in.procs : q < p => exitProc[q].pc # "idle"
            /\ IF out.reason = "found"
               THEN /\ \E i \in FindOpenAttendance(records, req.employeeId,
                                                   ExitWindow(now, req.actor.role)) :
                         exitProc' = [exitProc EXCEPT
                                        ![p] = [pc |-> "found", req |-> req, id |-> i,
                                                doc |-> Some(records[i]), at |-> now]]
                    /\ UNCHANGED <<lastReq, lastResp>>
               ELSE /\ Answer(req, out)
                    /\ UNCHANGED exitProc
            /\ UNCHANGED <<now, allowedRadius, records, notifications, closeCount,
                           call, inbox>>

\* POST /attendance/exit, from the check of the exit time to the response
RecordExitSave(p) ==
    LET st  == exitProc[p]
        out == recordExitUpdate(st.req, st.doc[1])
    IN  /\ st.pc = "found"
        /\ records' = IF out.save
                      THEN [records EXCEPT
                              ![st.id] = SetExit(records[st.id], st.req.time, st.req.loc)]
                      ELSE records
        /\ closeCount' = IF out.save
                         THEN [closeCount EXCEPT ![st.id] = @ + 1]
                         ELSE closeCount
        /\ notifications' = notifications \cup out.notes
        /\ exitProc' = [exitProc EXCEPT ![p] = Idle]
        /\ lastReq' = st.req
        /\ lastResp' = [status |-> out.status, reason |-> out.reason, at |-> st.at]
        /\ UNCHANGED <<now, allowedRadius, call, inbox>>

\* time passes
Tick ==
    /\ \E t \in Instants : t > now /\ now' = t
    /\ UNCHANGED <<allowedRadius, records, notifications, exitProc, closeCount,
                   lastReq, lastResp, call, inbox>>

\* GET /attendance/report/:employeeId
GetPresenceReport(in) ==
    /\ \E employeeId \in in.report.targets, q \in in.report.queries :
          call' = [fn |-> "getPresenceReport", employeeId |-> employeeId,
                   q |-> q, at |-> now, ledger |-> records,
                   out |-> getPresenceReport(employeeId, q, records)]
    /\ UNCHANGED <<now, allowedRadius, records, notifications, exitProc,
                   closeCount, lastReq, lastResp, inbox>>

\* GET /attendance/reports
GetAllPresenceReports(in) ==
    /\ \E q \in in.report.fleetQueries :
          call' = [fn |-> "getAllPresenceReports", q |-> q, at |-> now,
                   ledger |-> records,
                   reports |-> getAllPresenceReports(q, records, now)]
    /\ UNCHANGED <<now, allowedRadius, records, notifications, exitProc,
                   closeCount, lastReq, lastResp, inbox>>

\* GET /attendance/employee/:employeeId
GetAttendance(in) ==
    /\ \E actor \in in.list.actors, employeeId \in in.list.targets,
          limit \in in.list.limits :
          call' = [fn |-> "getAttendance", employeeId |-> employeeId,
                   limit |-> limit, actor |-> actor, at |-> now,
                   ledger |-> records,
                   out |-> getAttendance(employeeId, limit, actor, records)]
    /\ UNCHANGED <<now, allowedRadius, records, notifications, exitProc,
                   closeCount, lastReq, lastResp, inbox>>

\* a policy notification is raised: sendEmailAndNotify with an employee and
\* a type, the document saved when the mail went out
Notify(in) ==
    /\ inbox.created < MaxNotifications
    /\ \E userId \in in.inbox.users, type \in in.inbox.types,
          outcome \in in.inbox.outcomes :
          LET n == sendEmailAndNotify(userId, type, outcome) IN
          /\ inbox' = IF n.saved = {} THEN inbox
                      ELSE SaveNotification(inbox, userId, type, now)
          /\ notifications' = notifications \cup n.saved
          /\ call' = [fn |-> "sendEmailAndNotify", userId |-> userId,
                      type |-> type, outcome |-> outcome, at |-> now,
                      threw |-> n.threw]
    /\ UNCHANGED <<now, allowedRadius, records, exitProc, closeCount, lastReq,
                   lastResp>>

\* PATCH /notifications/:notificationId/read
MarkAsRead ==
    /\ \E notificationId \in 1..MaxNotifications :
          /\ inbox' = markAsRead(inbox, notificationId)
          /\ call' = [fn |-> "markAsRead", notificationId |-> notificationId,
                      at |-> now,
                      status |-> IF \E d \in inbox.docs : d.id = notificationId
                                 THEN 200 ELSE 404]
    /\ UNCHANGED <<now, allowedRadius, records, notifications, exitProc,
                   closeCount, lastReq, lastResp>>

\* PATCH /:userId/notifications/read-all
MarkAllAsRead(in) ==
    /\ \E userId \in in.inbox.users :
          /\ inbox' = markAllAsRead(inbox, userId)
          /\ call' = [fn |-> "markAllAsRead", userId |-> userId, at |-> now,
                      status |-> 200]
    /\ UNCHANGED <<now, allowedRadius, records, notifications, exitProc,
                   closeCount, lastReq, lastResp>>

\* DELETE /notifications/cleanup
DeleteOldNotifications ==
    /\ inbox' = deleteOldNotifications(inbox, now)
    /\ call' = [fn |-> "deleteOldNotifications", at |-> now,
                deletedCount |-> Cardinality(inbox.docs)
                                 - Cardinality(deleteOldNotifications(inbox, now).docs),
                status |-> 200]
    /\ UNCHANGED <<now, allowedRadius, records, notifications, exitProc,
                   closeCount, lastReq, lastResp>>

\* time passes, to one of the given instants
Advance(instants) ==
    /\ \E t \in instants : t > now /\ now' = t
    /\ UNCHANGED <<allowedRadius, records, notifications, exitProc, closeCount,
                   lastReq, lastResp, call, inbox>>

Init ==
    /\ now = StartOfDay10 + 8 * 60 + 50
    /\ allowedRadius = ParseRadius(None)
    /\ records = <<>>
    /\ notifications = {}
    /\ exitProc = [p \in ExitProcs |-> Idle]
    /\ closeCount = <<>>
    /\ lastReq = NoReq
    /\ lastResp = NoResp
    /\ call = NoCall
    /\ inbox = NoDocuments

\* the requests of the ledger specification: both principals act on e1
LedgerIn ==
    [cap       |-> MaxRecords,
     procs     |-> ExitProcs,
     actors    |-> {a \in Actors : a.id = "e1"},
     targets   |-> {"e1"},
     offsets   |-> {0},
     locs      |-> {Center},
     methods   |-> {"manual"},
     tokens    |-> {[issued |-> FALSE, parses |-> TRUE, employeeId |-> "e1",
                     age |-> Some(0)]},
     faces     |-> {Probe(0)},
     notifiers |-> {"ok"},
     exit      |-> [actors    |-> {a \in Actors : a.id = "e1"},
                    targets   |-> {"e1"},
                    offsets   |-> {0},
                    locs      |-> {Center},
                    notifiers |-> {"ok"}]]

Next ==
    \/ RecordAttendance(LedgerIn)
    \/ ScanQrCode(LedgerIn)
    \/ FacialAttendance(LedgerIn)
    \/ \E p \in LedgerIn.procs : RecordExitFind(LedgerIn, p)
    \/ \E p \in LedgerIn.procs : RecordExitSave(p)
    \/ Tick

Spec == Init /\ [][Next]_vars

-----------------------------------------------------------------------------
(* The ledger under concurrent requests *)

Open(i) == records[i].exitTime = None

RecordsOf(e) == {i \in DOMAIN records : records[i].employee = e}

\* C1: two recordExit requests for the same employee that run concurrently
\* while the employee has one open record do not both succeed against that
\* record.  Stated for an employee with a single record in the ledger: that
\* record is answered 200 by recordExit at most once.
C1_AtMostOneExitSucceeds ==
    \A i \in DOMAIN records :
        Cardinality(RecordsOf(records[i].employee)) = 1 => closeCount[i] <= 1

\* C4: when no exit is in flight, each employee has at most one open record
\* whose entry is dated today.
C4_AtMostOneOpenSession ==
    (\A p \in ExitProcs : exitProc[p].pc = "idle") =>
        \A e \in EmployeeIds :
            Cardinality({i \in RecordsOf(e) :
                            /\ Open(i)
                            /\ DayStart(records[i].entryTime) = DayStart(now)}) <= 1

\* C5: every record with an exit timestamp has it strictly greater than its
\* entry timestamp.
C5_ExitAfterEntry ==
    \A i \in DOMAIN records :
        ~Open(i) => records[i].exitTime[1] > records[i].entryTime

\* a record has been closed by recordExit
C5_ClosedRecord ==
    \E i \in DOMAIN records : ~Open(i) /\ closeCount[i] >= 1

\* C6: no step removes a record or changes the employee, entry time, entry
\* location or method of a record; a step changes at most one record, and a
\* changed record differs only in its exit time and exit location.
C6_OnlyExitFieldsChange ==
    [][/\ Len(records') >= Len(records)
       /\ \A i \in DOMAIN records :
            /\ records'[i].employee = records[i].employee
            /\ records'[i].entryTime = records[i].entryTime
            /\ records'[i].location = records[i].location
            /\ records'[i].method = records[i].method
       /\ Cardinality({i \in DOMAIN records : records'[i] # records[i]}) <= 1
       /\ lastReq'.kind = "exit" => Len(records') = Len(records)]_vars

\* recordExit has closed one record while another record is still open
C6_ClosedBesideOpen ==
    /\ lastReq.kind = "exit" /\ lastResp.status = 200
    /\ \E i, j \in DOMAIN records : i # j /\ ~Open(i) /\ Open(j)

-----------------------------------------------------------------------------
(* The capture adapters under varied requests *)

CaptureKinds == {"manual", "qr", "facial"}

\* one employee acts for themself; the notifier and the policy checks vary
NotifierIn ==
    [cap       |-> MaxRecordsWide,
     procs     |-> {1},
     actors    |-> {a \in Actors : a.id = "e1"},
     targets   |-> {"e1"},
     offsets   |-> {0, 10},
     locs      |-> {Center, At(4, 4)},
     methods   |-> {"manual"},
     tokens    |-> {[issued |-> FALSE, parses |-> TRUE, employeeId |-> "e1",
                     age |-> Some(0)],
                    [issued |-> FALSE, parses |-> TRUE, employeeId |-> "e1",
                     age |-> Some(6)]},
     faces     |-> {Probe(0)},
     notifiers |-> {"ok", "mail_fail", "save_fail"},
     exit      |-> [actors    |-> {a \in Actors : a.id = "e1"},
                    targets   |-> {"e1"},
                    offsets   |-> {10},
                    locs      |-> {Center},
                    notifiers |-> {"ok", "mail_fail"}]]

NextNotifier ==
    \/ RecordAttendance(NotifierIn)
    \/ ScanQrCode(NotifierIn)
    \/ FacialAttendance(NotifierIn)
    \/ \E p \in NotifierIn.procs : RecordExitFind(NotifierIn, p)
    \/ \E p \in NotifierIn.procs : RecordExitSave(p)

SpecNotifier == Init /\ [][NextNotifier]_vars

\* the values of ALLOWED_RADIUS at start: unset, "0" and "555"
EnvRadii == {None, Some(0), Some(555)}

InitGates ==
    /\ now = StartOfDay10 + 8 * 60 + 50
    /\ allowedRadius \in {ParseRadius(env) : env \in EnvRadii}
    /\ records = <<>>
    /\ notifications = {}
    /\ exitProc = [p \in ExitProcs |-> Idle]
    /\ closeCount = <<>>
    /\ lastReq = NoReq
    /\ lastResp = NoResp
    /\ call = NoCall
    /\ inbox = NoDocuments

\* the principal, the target, the credential and the location vary
GatesIn ==
    [cap       |-> MaxRecordsWide,
     procs     |-> {1},
     actors    |-> Actors,
     targets   |-> {"e1", "adm", "ghost"},
     offsets   |-> {0},
     locs      |-> {Center, At(3, 4)},
     methods   |-> {"manual"},
     tokens    |-> {[issued |-> FALSE, parses |-> TRUE, employeeId |-> "e1",
                     age |-> Some(0)],
                    [issued |-> FALSE, parses |-> TRUE, employeeId |-> "adm",
                     age |-> Some(0)]},
     faces     |-> {Probe(0), Probe(6)},
     notifiers |-> {"ok"},
     exit      |-> [actors    |-> {},
                    targets   |-> {},
                    offsets   |-> {},
                    locs      |-> {},
                    notifiers |-> {}]]

NextGates ==
    \/ RecordAttendance(GatesIn)
    \/ ScanQrCode(GatesIn)
    \/ FacialAttendance(GatesIn)

SpecGates == InitGates /\ [][NextGates]_vars

\* the stated gates, each on its own
Admissible(claimed, t, role) ==
    /\ ~(claimed - t > 15)
    /\ role # "admin" => /\ ~(claimed \div Day < t \div Day)
                         /\ ~(t - claimed > 15)
    /\ role = "admin" => ~(t - claimed > 7 * Day)

Authorized(req) == req.actor.id = Target(req) \/ req.actor.role = "admin"

\* scaled planar distance <= radius
WithinFence(loc, radius) ==
    /\ radius >= 0
    /\ ((loc[1] - allowedLocation.lng) * (loc[1] - allowedLocation.lng)
        + (loc[2] - allowedLocation.lat) * (loc[2] - allowedLocation.lat))
       * 111 * 111 <= radius * radius

TokenExpired(tok, t) == tok.timestamp # None /\ t - tok.timestamp[1] > 5

CredentialOk(req, t) ==
    CASE req.kind = "manual" -> TRUE
      [] req.kind = "qr"     -> /\ req.qr.parses
                                /\ req.qr.timestamp # None
                                /\ ~TokenExpired(req.qr, t)
      [] req.kind = "facial" ->
            /\ faceDescriptor(req.employeeId) # None
            /\ Len(req.face) = Len(faceDescriptor(req.employeeId)[1])
            /\ SumSquares(req.face, faceDescriptor(req.employeeId)[1], 1) < 36

WellFormed(req, t) ==
    /\ IsMongoId(Target(req))
    /\ Admissible(req.time, t, req.actor.role)
    /\ req.kind = "facial" => Len(req.face) = DescLen

PassesGates(req, t) ==
    /\ WellFormed(req, t)
    /\ EmployeeExists(Target(req))
    /\ Authorized(req)
    /\ CredentialOk(req, t)
    /\ WithinFence(req.loc, allowedRadius)

\* C2: a capture request that passes validation, authorization, credential
\* and geofence checks is answered 201 whether or not the notifier fails, and
\* no exit request is answered 500 because the notifier failed.
C2_NotifierNeverFailsAcceptance ==
    /\ (lastReq.kind \in CaptureKinds /\ PassesGates(lastReq, lastResp.at))
          => lastResp.status = 201
    /\ lastReq.kind = "exit" => lastResp.status # 500

\* C3: a capture request that fails the geofence check or, for QR, the
\* expiry check creates no record, whatever the notifier does.
C3_RejectionNeverCreates ==
    [][(/\ lastReq'.kind \in CaptureKinds
        /\ \/ ~WithinFence(lastReq'.loc, allowedRadius)
           \/ lastReq'.kind = "qr" /\ TokenExpired(lastReq'.qr, now))
          => records' = records]_vars

\* a request outside the fence whose notification failed was answered 500 and
\* the ledger is still empty
C3_RejectedWhileNotifierFails ==
    /\ lastReq.kind \in CaptureKinds
    /\ ~WithinFence(lastReq.loc, allowedRadius)
    /\ lastReq.notifier # "ok"
    /\ lastResp.status = 500
    /\ records = <<>>

\* C9: a well-formed capture request for an existing employee by a principal
\* who is neither that employee nor an admin is answered 403.
C9_UnauthorizedAnswered403 ==
    (/\ lastReq.kind \in CaptureKinds
     /\ WellFormed(lastReq, lastResp.at)
     /\ EmployeeExists(Target(lastReq))
     /\ ~Authorized(lastReq))
        => lastResp.status = 403

\* the square of the planar distance to the centre, in millionths of a
\* square degree
SquaredDegrees(loc) ==
    (loc[1] - allowedLocation.lng) * (loc[1] - allowedLocation.lng)
    + (loc[2] - allowedLocation.lat) * (loc[2] - allowedLocation.lat)

\* the checks a capture adapter makes before the geofence
PassesEarlierGates(req, t) ==
    /\ WellFormed(req, t)
    /\ EmployeeExists(Target(req))
    /\ Authorized(req)
    /\ CredentialOk(req, t)

\* C10: the geofence rejects a request that reached it iff the scaled planar
\* distance of its location exceeds the radius (a location at exactly the
\* radius, and the centre under any radius >= 0, are accepted), and every
\* record was created for a location inside the fence.
C10_GeofenceGate ==
    /\ \A i \in DOMAIN records : WithinFence(records[i].location, allowedRadius)
    /\ (/\ lastReq.kind \in CaptureKinds
        /\ PassesEarlierGates(lastReq, lastResp.at)
        /\ lastReq.notifier = "ok")
          => /\ lastResp.reason = "location"
                  <=> ~WithinFence(lastReq.loc, allowedRadius)
             /\ lastResp.reason = "created"
                  <=> WithinFence(lastReq.loc, allowedRadius)
             /\ (lastReq.loc = Center /\ allowedRadius >= 0)
                  => lastResp.status = 201

\* a record was created for a location at exactly the radius
C10_BoundaryAccepted ==
    /\ lastReq.kind \in CaptureKinds
    /\ lastResp.status = 201
    /\ SquaredDegrees(lastReq.loc) * 111 * 111 = allowedRadius * allowedRadius
    /\ \E i \in DOMAIN records : records[i].location = lastReq.loc

-----------------------------------------------------------------------------
(* Temporal admissibility in the four adapters *)

\* an admin and an employee act on e1; the claimed time varies
TemporalIn ==
    [cap       |-> MaxRecordsWide,
     procs     |-> {1},
     actors    |-> Actors,
     targets   |-> {"e1"},
     offsets   |-> {-SevenDays - 1, -Day, -20, 0, 10, 20},
     locs      |-> {Center},
     methods   |-> {"manual"},
     tokens    |-> {[issued |-> FALSE, parses |-> TRUE, employeeId |-> "e1",
                     age |-> Some(0)]},
     faces     |-> {Probe(0)},
     notifiers |-> {"ok"},
     exit      |-> [actors    |-> Actors,
                    targets   |-> {"e1"},
                    offsets   |-> {-SevenDays - 1, -Day, -20, 0, 10, 20},
                    locs      |-> {Center},
                    notifiers |-> {"ok"}]]

NextTemporal ==
    \/ RecordAttendance(TemporalIn)
    \/ ScanQrCode(TemporalIn)
    \/ FacialAttendance(TemporalIn)
    \/ \E p \in TemporalIn.procs : RecordExitFind(TemporalIn, p)
    \/ \E p \in TemporalIn.procs : RecordExitSave(p)

SpecTemporal == Init /\ [][NextTemporal]_vars

\* the manual adapter alone, over many claimed times, clocks and roles
EntryTimeIn ==
    [cap       |-> MaxRecordsWide,
     procs     |-> {1},
     actors    |-> Actors \cup {[id |-> "st1", role |-> "stagiaire"]},
     targets   |-> {"e1"},
     offsets   |-> {-SevenDays - 1, -SevenDays, -Day, -16, -15, -10, -1, 0,
                    1, 10, 15, 16, 20},
     locs      |-> {Center},
     methods   |-> {"manual"},
     tokens    |-> {},
     faces     |-> {},
     notifiers |-> {"ok"},
     exit      |-> [actors |-> {}, targets |-> {}, offsets |-> {}, locs |-> {},
                    notifiers |-> {}]]

InitEntryTime ==
    /\ now \in {StartOfDay10 + 5, StartOfDay10 + 20, StartOfDay10 + 8 * 60 + 50,
                StartOfDay10 + 23 * 60 + 50}
    /\ allowedRadius = ParseRadius(None)
    /\ records = <<>>
    /\ notifications = {}
    /\ exitProc = [p \in ExitProcs |-> Idle]
    /\ closeCount = <<>>
    /\ lastReq = NoReq
    /\ lastResp = NoResp
    /\ call = NoCall
    /\ inbox = NoDocuments

NextEntryTime == RecordAttendance(EntryTimeIn)

SpecEntryTime == InitEntryTime /\ [][NextEntryTime]_vars

\* C7: the manual adapter answers "validation error" exactly for the claimed
\* times the stated rule rejects.
C7_EntryTimeRule ==
    lastReq.kind = "manual" =>
        (lastResp.reason = "validation"
            <=> ~Admissible(lastReq.time, lastResp.at, lastReq.actor.role))

\* a non-admin's claimed time of yesterday, less than 15 minutes ago, rejected
C7_YesterdayRejected ==
    /\ lastReq.kind = "manual"
    /\ lastReq.actor.role # "admin"
    /\ lastResp.at - lastReq.time < 15
    /\ lastReq.time \div Day < lastResp.at \div Day
    /\ lastResp.status = 400 /\ lastResp.reason = "validation"

\* C8: every adapter (manual, QR, facial, exit) rejects a request as invalid
\* exactly when the stated rule rejects its claimed time, and a step creates
\* or closes a record only with a time the rule accepts for the request's
\* principal at the time of the request.
C8_UniformPolicy ==
    [][/\ lastReq'.kind \in CaptureKinds \cup {"exit"} =>
            (lastResp'.reason = "validation"
                <=> ~Admissible(lastReq'.time, lastResp'.at, lastReq'.actor.role))
       /\ \A i \in DOMAIN records' :
            /\ i \notin DOMAIN records =>
                 Admissible(records'[i].entryTime, lastResp'.at,
                            lastReq'.actor.role)
            /\ (i \in DOMAIN records /\ records'[i].exitTime # records[i].exitTime) =>
                 Admissible(records'[i].exitTime[1], lastResp'.at,
                            lastReq'.actor.role)]_vars

\* an admin closed a record with an exit time more than 15 minutes in the past
C8_AdminClosedInPast ==
    /\ lastReq.kind = "exit" /\ lastResp.status = 200
    /\ lastReq.actor.role = "admin"
    /\ lastResp.at - lastReq.time > 15
    /\ \E i \in DOMAIN records : records[i].exitTime = Some(lastReq.time)

-----------------------------------------------------------------------------
(* The QR adapter under varied payloads *)

\* a token put together by hand
Handmade(parses, employeeId, age) ==
    [issued |-> FALSE, parses |-> parses, employeeId |-> employeeId, age |-> age]

\* a token that generateQrCode issued age minutes before the scan
Issued(employeeId, age) ==
    [issued |-> TRUE, parses |-> TRUE, employeeId |-> employeeId, age |-> Some(age)]

\* e1 and the admin scan payloads for e1: malformed, without a timestamp,
\* fresh and stale, handmade and issued by generateQrCode
QrIn ==
    [cap       |-> MaxRecordsWide,
     procs     |-> {1},
     actors    |-> Actors,
     targets   |-> {"e1"},
     offsets   |-> {0},
     locs      |-> {Center},
     methods   |-> {"manual"},
     tokens    |-> {Handmade(FALSE, "none", None),
                    Handmade(TRUE, "bad", Some(0)),
                    Handmade(TRUE, "e1", None),
                    Handmade(TRUE, "e1", Some(0)),
                    Handmade(TRUE, "e1", Some(5)),
                    Handmade(TRUE, "e1", Some(6)),
                    Issued("e1", 0),
                    Issued("e1", 6),
                    Issued("e1", TwelveHours),
                    Issued("e1", TwelveHours + 1)},
     faces     |-> {},
     notifiers |-> {"ok", "mail_fail"},
     exit      |-> [actors |-> {}, targets |-> {}, offsets |-> {}, locs |-> {},
                    notifiers |-> {}]]

NextQr ==
    \/ ScanQrCode(QrIn)
    \/ Tick

SpecQr == Init /\ [][NextQr]_vars

\* the checks scanQrCode makes before it looks at the age of the token
ReachesExpiry(req, t) ==
    /\ req.kind = "qr"
    /\ Admissible(req.time, t, req.actor.role)
    /\ req.qr.parses
    /\ IsMongoId(req.qr.employeeId)
    /\ Authorized(req)
    /\ EmployeeExists(req.qr.employeeId)

\* C11: a QR request that reaches the expiry check with a token issued more
\* than 5 minutes before the scan is answered 401, creates no record, and
\* leaves an expired_qr notification for the token's employee.
C11_StaleTokenRejected ==
    [][(/\ ReachesExpiry(lastReq', lastResp'.at)
        /\ lastReq'.qr.timestamp # None
        /\ lastResp'.at - lastReq'.qr.timestamp[1] > 5)
          => /\ lastResp'.status = 401
             /\ records' = records
             /\ [userId |-> lastReq'.qr.employeeId, type |-> "expired_qr"]
                   \in notifications']_vars

\* C12: for a QR request that passes every other gate, a token that carries
\* expiresAt is accepted iff now is not past expiresAt, and a token without
\* expiresAt (with a timestamp) is accepted iff it is at most 5 minutes old.
C12_EmbeddedExpiryDecides ==
    (/\ ReachesExpiry(lastReq, lastResp.at)
     /\ lastReq.qr.timestamp # None
     /\ WithinFence(lastReq.loc, allowedRadius)
     /\ lastReq.notifier = "ok")
       => IF lastReq.qr.expiresAt # None
          THEN lastResp.status = 201 <=> lastResp.at <= lastReq.qr.expiresAt[1]
          ELSE lastResp.status = 201
                  <=> lastResp.at - lastReq.qr.timestamp[1] <= 5

\* C13: a QR request whose payload does not parse, names no valid employeeId
\* or has no numeric timestamp is not answered 201 and creates no record.
C13_MalformedPayloadRejected ==
    [][(/\ lastReq'.kind = "qr"
        /\ \/ ~lastReq'.qr.parses
           \/ ~IsMongoId(lastReq'.qr.employeeId)
           \/ lastReq'.qr.timestamp = None)
          => /\ lastResp'.status # 201
             /\ records' = records]_vars

-----------------------------------------------------------------------------
(* The facial adapter under varied probes *)

\* e1 and the admin submit probes at distance 0, 0.5, 0.6 and 0.8 from the
\* descriptor stored for e1, and for the admin, who has none stored; the
\* manual adapter is called with each method it admits
FaceIn ==
    [cap       |-> MaxRecordsWide,
     procs     |-> {1},
     actors    |-> Actors,
     targets   |-> {"e1", "adm"},
     offsets   |-> {0},
     locs      |-> {Center},
     methods   |-> Methods,
     tokens    |-> {},
     faces     |-> {Probe(0), Probe(5), Probe(6), Probe(8)},
     notifiers |-> {"ok"},
     exit      |-> [actors |-> {}, targets |-> {}, offsets |-> {}, locs |-> {},
                    notifiers |-> {}]]

NextFace ==
    \/ RecordAttendance(FaceIn)
    \/ FacialAttendance(FaceIn)
    \/ Tick

SpecFace == Init /\ [][NextFace]_vars

\* the probe is strictly closer than 0.6 to the descriptor stored for the
\* employee (components in tenths, so 0.6 squared is 36)
FaceMatches(face, employeeId) ==
    /\ faceDescriptor(employeeId) # None
    /\ Len(face) = Len(faceDescriptor(employeeId)[1])
    /\ SumSquares(face, faceDescriptor(employeeId)[1], 1) < 36

\* C14: a facial request whose target has no stored descriptor, or whose
\* probe is at distance >= 0.6 from it, is not accepted and creates no
\* record; and every record created with method "facial" was created by a
\* facial request whose probe was strictly closer than 0.6.
C14_FacialOnlyBelowThreshold ==
    [][/\ (/\ lastReq'.kind = "facial"
            /\ ~FaceMatches(lastReq'.face, lastReq'.employeeId))
              => /\ lastResp'.status # 201
                 /\ records' = records
       /\ \A i \in DOMAIN records' :
            (i \notin DOMAIN records /\ records'[i].method = "facial")
                => /\ lastReq'.kind = "facial"
                   /\ FaceMatches(lastReq'.face, lastReq'.employeeId)]_vars

-----------------------------------------------------------------------------
(* calculateDistance on its own *)

RECURSIVE Vectors(_)
\* the arrays of n components
Vectors(n) ==
    IF n = 0 THEN {<<>>}
    ELSE {Append(v, c) : v \in Vectors(n - 1), c \in -MaxComponent..MaxComponent}

\* the arguments calculateDistance is given: undefined, or an array of up to
\* DescLen components
Descriptors ==
    {None} \cup {Some(v) : v \in UNION {Vectors(n) : n \in 0..DescLen}}

\* a pair of arguments awaits evaluation
InitDistance ==
    /\ now = StartOfDay10 + 8 * 60 + 50
    /\ allowedRadius = ParseRadius(None)
    /\ records = <<>>
    /\ notifications = {}
    /\ exitProc = [p \in ExitProcs |-> Idle]
    /\ closeCount = <<>>
    /\ lastReq = NoReq
    /\ lastResp = NoResp
    /\ call \in {[fn |-> "arguments", descriptor1 |-> d1, descriptor2 |-> d2] :
                    d1 \in Descriptors, d2 \in Descriptors}
    /\ inbox = NoDocuments

\* calculateDistance is evaluated on the pair of arguments, on the pair
\* swapped and on the first argument twice, and the comparison of
\* facialAttendance is applied to the result
CalculateDistance ==
    /\ call.fn = "arguments"
    /\ call' = [fn          |-> "calculateDistance",
                descriptor1 |-> call.descriptor1,
                descriptor2 |-> call.descriptor2,
                result      |-> calculateDistance(call.descriptor1, call.descriptor2),
                swapped     |-> calculateDistance(call.descriptor2, call.descriptor1),
                self        |-> calculateDistance(call.descriptor1, call.descriptor1),
                rejected    |-> FaceRejected(calculateDistance(call.descriptor1,
                                                               call.descriptor2))]
    /\ UNCHANGED <<now, allowedRadius, records, notifications, exitProc,
                   closeCount, lastReq, lastResp, inbox>>

NextDistance == CalculateDistance

SpecDistance == InitDistance /\ [][NextDistance]_vars

\* both arguments are arrays of the same length
Comparable(d1, d2) == d1 # None /\ d2 # None /\ Len(d1[1]) = Len(d2[1])

\* C15: on descriptors of equal length calculateDistance gives the same
\* finite distance for (a, b) and (b, a), and distance 0 for (v, v).
C15_SymmetricZeroOnEqual ==
    (call.fn = "calculateDistance" /\ Comparable(call.descriptor1, call.descriptor2))
        => /\ ~call.result.inf
           /\ call.result = call.swapped
           /\ call.self = [inf |-> FALSE, sq |-> 0]

\* two different descriptors of full length were compared
C15_DistinctCompared ==
    /\ call.fn = "calculateDistance"
    /\ Comparable(call.descriptor1, call.descriptor2)
    /\ Len(call.descriptor1[1]) = DescLen
    /\ call.descriptor1 # call.descriptor2
    /\ call.result.sq > 0

\* C16: when an argument is absent or the lengths differ, calculateDistance
\* returns the infinite sentinel, and the comparison of facialAttendance
\* rejects the sentinel.
C16_FailClosed ==
    (call.fn = "calculateDistance" /\ ~Comparable(call.descriptor1, call.descriptor2))
        => /\ call.result.inf
           /\ call.rejected

\* a full descriptor was compared with a shorter one
C16_LengthsDiffered ==
    /\ call.fn = "calculateDistance"
    /\ call.descriptor1 # None /\ call.descriptor2 # None
    /\ Len(call.descriptor1[1]) = DescLen
    /\ Len(call.descriptor2[1]) < DescLen
    /\ call.result.inf /\ call.rejected

-----------------------------------------------------------------------------
(* recordExit over several days *)

\* day 10 at 08:50 and 17:00, day 11 at 08:00, day 17 at 18:00 and day 18
\* at 08:00
ExitInstants ==
    {StartOfDay10 + 8 * 60 + 50, StartOfDay10 + 17 * 60,
     StartOfDay10 + Day + 8 * 60, StartOfDay10 + 7 * Day + 18 * 60,
     StartOfDay10 + 8 * Day + 8 * 60}

\* e1 records entries for now and for 10 minutes ahead; e1 and the admin
\* record exits for e1 with the exit time now, one request at a time
ExitIn ==
    [cap       |-> MaxRecords,
     procs     |-> {1},
     actors    |-> {a \in Actors : a.id = "e1"},
     targets   |-> {"e1"},
     offsets   |-> {0, 10},
     locs      |-> {Center},
     methods   |-> {"manual"},
     tokens    |-> {},
     faces     |-> {},
     notifiers |-> {"ok"},
     exit      |-> [actors    |-> Actors,
                    targets   |-> {"e1"},
                    offsets   |-> {0},
                    locs      |-> {Center},
                    notifiers |-> {"ok"}]]

NextExit ==
    \/ RecordAttendance(ExitIn)
    \/ \E p \in ExitIn.procs : RecordExitFind(ExitIn, p)
    \/ \E p \in ExitIn.procs : RecordExitSave(p)
    \/ Advance(ExitInstants)

SpecExit == Init /\ [][NextExit]_vars

\* the window of the actor, by calendar day: today for a non-admin, today
\* and the 7 days before it for an admin
InActorWindow(entryTime, t, role) ==
    IF role = "admin"
    THEN entryTime \div Day >= t \div Day - 7 /\ entryTime \div Day <= t \div Day
    ELSE entryTime \div Day = t \div Day

\* the open records of the employee inside the actor's window
OpenInWindow(employeeId, t, role) ==
    {i \in RecordsOf(employeeId) :
        Open(i) /\ InActorWindow(records[i].entryTime, t, role)}

C18_ExitNotAfterEntryRejected ==
    [][\A p \in ExitProcs :
         (/\ exitProc[p].pc = "found" /\ exitProc'[p].pc = "idle"
          /\ exitProc[p].req.time <= records[exitProc[p].id].entryTime) =>
             /\ lastResp'.status = 400
             /\ lastResp'.reason = "exit_not_after_entry"
             /\ records' = records
             /\ records'[exitProc[p].id].exitTime = None]_vars

\* an exit at exactly the entry time of the open record was rejected
C18_EqualTimesRejected ==
    /\ lastReq.kind = "exit"
    /\ lastResp.status = 400 /\ lastResp.reason = "exit_not_after_entry"
    /\ \E i \in RecordsOf(lastReq.employeeId) :
          Open(i) /\ records[i].entryTime = lastReq.time

-----------------------------------------------------------------------------
(* Presence reports over a ledger of two employees *)

\* day 10 at 08:50 and 17:00
ReportInstants == {StartOfDay10 + 8 * 60 + 50, StartOfDay10 + 17 * 60}

\* the query string of a report request; period is "none" when absent
Query(period, startDate, endDate) ==
    [period |-> period, startDate |-> startDate, endDate |-> endDate]

\* the admin records entries for e1 and for themself, for now and for the day
\* before (which for e1 is before the hire date); e1 records exits; the
\* admin asks for reports
ReportIn ==
    [cap       |-> MaxRecords,
     procs     |-> {1},
     actors    |-> {a \in Actors : a.role = "admin"},
     targets   |-> {"e1", "adm"},
     offsets   |-> {0, -Day},
     locs      |-> {Center},
     methods   |-> {"manual"},
     tokens    |-> {},
     faces     |-> {},
     notifiers |-> {"ok"},
     exit      |-> [actors    |-> {a \in Actors : a.id = "e1"},
                    targets   |-> {"e1"},
                    offsets   |-> {0},
                    locs      |-> {Center},
                    notifiers |-> {"ok"}],
     report    |-> [targets      |-> {"e1", "ghost"},
                    queries      |-> {Query("weekly", Some(StartOfDay10 + 12 * 60), None),
                                      Query("monthly", Some(StartOfDay10 + 12 * 60), None),
                                      Query("daily", Some(StartOfDay10),
                                            Some(StartOfDay10 + Day - 1)),
                                      Query("daily", Some(StartOfDay10 - Day), None),
                                      Query("none", None, None)},
                    fleetQueries |-> {Query("none", None, None),
                                      Query("weekly", Some(StartOfDay10), None)}]]

NextReport ==
    \/ RecordAttendance(ReportIn)
    \/ \E p \in ReportIn.procs : RecordExitFind(ReportIn, p)
    \/ \E p \in ReportIn.procs : RecordExitSave(p)
    \/ GetPresenceReport(ReportIn)
    \/ GetAllPresenceReports(ReportIn)
    \/ Advance(ReportInstants)

SpecReport == Init /\ [][NextReport]_vars

RECURSIVE MinutesWorked(_, _)
\* the sum of exit - entry over the records S of the ledger
MinutesWorked(ledger, S) ==
    IF S = {} THEN 0
    ELSE LET i == CHOOSE j \in S : TRUE
         IN  (ledger[i].exitTime[1] - ledger[i].entryTime)
             + MinutesWorked(ledger, S \ {i})

\* the stated aggregation of the records S of the ledger (hours counted in
\* minutes)
StatedReport(ledger, S) ==
    [totalDays  |-> Cardinality(S),
     lateDays   |-> Cardinality({i \in S : (ledger[i].entryTime % Day) \div 60 >= 9}),
     totalHours |-> MinutesWorked(ledger, {i \in S : ledger[i].exitTime # None})]

\* C19: every report, of one employee or of the fleet, counts one day per
\* selected record, one late day per selected record whose entry hour is
\* >= 9, and the hours from entry to exit of exactly the selected records
\* that have an exit.
C19_ReportAggregation ==
    /\ (call.fn = "getPresenceReport" /\ call.out.status = 200)
          => call.out.report = StatedReport(call.ledger, call.out.selected)
    /\ call.fn = "getAllPresenceReports"
          => \A k \in DOMAIN call.reports :
                call.reports[k].report
                    = StatedReport(call.ledger, call.reports[k].selected)

\* a report over an open late record and a closed record
C19_OpenAndClosedReported ==
    /\ call.fn = "getPresenceReport" /\ call.out.status = 200
    /\ \E i, j \in call.out.selected :
          /\ call.ledger[i].exitTime = None
          /\ (call.ledger[i].entryTime % Day) \div 60 >= 9
          /\ call.ledger[j].exitTime # None
    /\ call.out.report.totalDays = 2
    /\ call.out.report.lateDays >= 1
    /\ call.out.report.totalHours > 0

InPeriod(entryTime, q) ==
    CASE q.period = "daily"   -> entryTime \div Day = q.startDate[1] \div Day
      [] q.period = "weekly"  -> /\ entryTime \div Day >= q.startDate[1] \div Day
                                 /\ entryTime \div Day < q.startDate[1] \div Day + 7
      [] q.period = "monthly" -> \E k \in 1..(Len(MonthFirstDays) - 1) :
                                    /\ MonthFirstDays[k] <= entryTime \div Day
                                    /\ entryTime \div Day < MonthFirstDays[k + 1]
                                    /\ MonthFirstDays[k] <= q.startDate[1] \div Day
                                    /\ q.startDate[1] \div Day < MonthFirstDays[k + 1]

\* C21: a per-employee report for a period aggregates exactly the employee's
\* records whose entry falls inside the stated period.
C21_ReportWithinPeriod ==
    (call.fn = "getPresenceReport" /\ call.out.status = 200) =>
        /\ call.out.selected
              = {i \in DOMAIN call.ledger :
                    /\ call.ledger[i].employee = call.employeeId
                    /\ InPeriod(call.ledger[i].entryTime, call.q)}
        /\ call.out.report = StatedReport(call.ledger, call.out.selected)

-----------------------------------------------------------------------------
(* Listing the attendance of an employee *)

\* the admin records entries for e1 and for themself, for now and for the day
\* before; e1 and the admin list the records of e1 and of the admin with
\* limit 1 or 2
ListIn ==
    [cap       |-> MaxRecords,
     procs     |-> {1},
     actors    |-> {a \in Actors : a.role = "admin"},
     targets   |-> {"e1", "adm"},
     offsets   |-> {0, -Day},
     locs      |-> {Center},
     methods   |-> {"manual"},
     tokens    |-> {},
     faces     |-> {},
     notifiers |-> {"ok"},
     exit      |-> [actors |-> {}, targets |-> {}, offsets |-> {}, locs |-> {},
                    notifiers |-> {}],
     list      |-> [actors  |-> Actors,
                    targets |-> {"e1", "adm"},
                    limits  |-> {1, 2}]]

NextList ==
    \/ RecordAttendance(ListIn)
    \/ GetAttendance(ListIn)
    \/ Advance(ReportInstants)

SpecList == Init /\ [][NextList]_vars

\* C22: a listing with limit N returns records of the employee only, at
\* most N of them, in descending order of entry time, and no returned record
\* is older than a record of the employee that was left out.
C22_NewestFirstWithinLimit ==
    (call.fn = "getAttendance" /\ call.out.status = 200) =>
        LET list == call.out.list
            listed == {list[k] : k \in DOMAIN list}
        IN  /\ \A i \in listed : call.ledger[i].employee = call.employeeId
            /\ Len(list) <= call.limit
            /\ \A k \in DOMAIN list : \A l \in DOMAIN list :
                  k < l => call.ledger[list[k]].entryTime
                             >= call.ledger[list[l]].entryTime
            /\ \A i \in listed : \A j \in DOMAIN call.ledger :
                  (call.ledger[j].employee = call.employeeId /\ j \notin listed)
                      => call.ledger[i].entryTime >= call.ledger[j].entryTime

-----------------------------------------------------------------------------
(* The operations on notifications *)

\* day 10 at 08:50, day 20 at 08:50, day 40 at 08:50 (30 days after the
\* first) and day 41 at 08:50
InboxInstants ==
    {StartOfDay10 + 8 * 60 + 50, StartOfDay10 + 10 * Day + 8 * 60 + 50,
     StartOfDay10 + 30 * Day + 8 * 60 + 50, StartOfDay10 + 31 * Day + 8 * 60 + 50}

InboxIn ==
    [inbox |-> [users    |-> {"e1", "adm"},
                types    |-> {"late_arrival", "expired_qr"},
                outcomes |-> {"ok", "mail_fail"}]]

NextInbox ==
    \/ Notify(InboxIn)
    \/ MarkAsRead
    \/ MarkAllAsRead(InboxIn)
    \/ DeleteOldNotifications
    \/ Advance(InboxInstants)

SpecInbox == Init /\ [][NextInbox]_vars

\* the document with this id, as a set of at most one document
DocumentWithId(box, id) == {d \in box.docs : d.id = id}

\* C23: in every step each notification either stays as it is, or has its
\* read flag set from false to true by a mark-read operation with nothing
\* else changed, or is deleted by the sweep while read and older than 30
\* days; and the sweep deletes every notification that is read and older
\* than 30 days.
C23_NotificationLifecycle ==
    [][/\ \A d \in inbox.docs :
            \/ d \in inbox'.docs
            \/ /\ DocumentWithId(inbox', d.id) = {[d EXCEPT !.read = TRUE]}
               /\ ~d.read
               /\ call'.fn \in {"markAsRead", "markAllAsRead"}
            \/ /\ DocumentWithId(inbox', d.id) = {}
               /\ call'.fn = "deleteOldNotifications"
               /\ d.read
               /\ now - d.timestamp > 30 * Day
       /\ (call'.fn = "deleteOldNotifications" /\ call' # call) =>
            \A d \in inbox.docs :
                (d.read /\ now - d.timestamp > 30 * Day) => d \notin inbox'.docs]_vars

\* the sweep deleted a notification and kept an unread one older than 30 days
C23_UnreadOldKept ==
    /\ call.fn = "deleteOldNotifications"
    /\ call.deletedCount >= 1
    /\ \E d \in inbox.docs : ~d.read /\ call.at - d.timestamp > 30 * Day

-----------------------------------------------------------------------------
(* Late arrival *)

\* the step serves a capture request
CaptureServed ==
    /\ lastReq'.kind \in CaptureKinds
    /\ exitProc' = exitProc /\ now' = now /\ call' = call
    /\ <<lastReq', lastResp', records'>> # <<lastReq, lastResp, records>>

\* C24: a capture request that passes every gate is answered 201 and creates
\* a record; it stores a late_arrival notification for the employee when the
\* local hour of its entry time is >= 9, and stores no notification when the
\* hour is < 9.
C24_LateArrivalNotified ==
    [][(CaptureServed /\ PassesGates(lastReq', now)) =>
          /\ lastResp'.status = 201
          /\ Len(records') = Len(records) + 1
          /\ (lastReq'.time % Day) \div 60 >= 9 =>
                [userId |-> Target(lastReq'), type |-> "late_arrival"]
                    \in notifications'
          /\ (lastReq'.time % Day) \div 60 < 9 => notifications' = notifications]_vars

\* C25: after a policy notification is raised with an employee and a type,
\* the collection holds an unread notification for that employee with that
\* type, created at that time, whether or not the mail went out.
C25_RaisedNotificationStored ==
    (call.fn = "sendEmailAndNotify" /\ call.outcome \in {"ok", "mail_fail"}) =>
        \E d \in inbox.docs :
            /\ d.userId = call.userId
            /\ d.type = call.type
            /\ ~d.read
            /\ d.timestamp = call.at

-----------------------------------------------------------------------------
(* The mail dispatch in flight: src/utils/email.js and its revision       *)
(* src/unnamed/part_010                                                    *)

\* the two revisions of the mail module found in the source tree
EmailRevisions == {"email.js", "part_010"}

\* setTimeout(() => reject(new Error("Email timeout")), 15000)
EmailTimeoutMs == 15000

\* the timer raced against transporter.sendMail: email.js awaits sendMail
\* alone, part_010 races it against the timer
EmailTimeout(revision) ==
    IF revision = "part_010" THEN Some(EmailTimeoutMs) ELSE None

\* e1 records entries for now and for 10 minutes ahead, at the centre and
\* outside the fence; e1 records exits for now
MailIn ==
    [cap       |-> MaxRecords,
     procs     |-> {1},
     actors    |-> {a \in Actors : a.id = "e1"},
     targets   |-> {"e1"},
     offsets   |-> {0, 10},
     locs      |-> {Center, At(4, 4)},
     methods   |-> {"manual"},
     tokens    |-> {},
     faces     |-> {},
     notifiers |-> {"ok"},
     revisions |-> EmailRevisions,
     exit      |-> [actors    |-> {a \in Actors : a.id = "e1"},
                    targets   |-> {"e1"},
                    offsets   |-> {0},
                    locs      |-> {Center},
                    notifiers |-> {"ok"}]]

MailInstants == {StartOfDay10 + 8 * 60 + 50, StartOfDay10 + 17 * 60}

\* the handler has reached  await sendEmailAndNotify(...)  and sendMail is
\* in flight
Pending(kind, req, revision) ==
    [fn |-> "sendMail", kind |-> kind, req |-> req, at |-> now,
     timeout |-> EmailTimeout(revision)]

\* a manual entry that reaches the notifier (outside the fence, or late):
\* the handler up to the await of sendEmailAndNotify
MailCapture(in) ==
    /\ call.fn # "sendMail"
    /\ Len(records) < in.cap
    /\ \E actor \in in.actors, target \in in.targets, off \in in.offsets,
          loc \in in.locs, method \in in.methods, revision \in in.revisions :
          LET req == [kind |-> "manual", actor |-> actor, employeeId |-> target,
                      time |-> now + off, loc |-> loc, method |-> method,
                      qr |-> NoToken, face |-> <<>>, notifier |-> "ok"]
          IN  /\ Capture(req, now, allowedRadius).notes # {}
              /\ call' = Pending("capture", req, revision)
    /\ UNCHANGED <<now, allowedRadius, records, notifications, exitProc,
                   closeCount, lastReq, lastResp, inbox>>

\* recordExit from the check of the exit time to the await of
\* sendEmailAndNotify: the exit is saved before the mail is sent
MailExit(in, p) ==
    LET st == exitProc[p] IN
    /\ call.fn # "sendMail"
    /\ st.pc = "found"
    /\ recordExitUpdate(st.req, st.doc[1]).save
    /\ records' = [records EXCEPT
                     ![st.id] = SetExit(records[st.id], st.req.time, st.req.loc)]
    /\ closeCount' = [closeCount EXCEPT ![st.id] = @ + 1]
    /\ exitProc' = [exitProc EXCEPT ![p] = Idle]
    /\ \E revision \in in.revisions :
          call' = [Pending("exit", st.req, revision) EXCEPT !.at = st.at]
    /\ UNCHANGED <<now, allowedRadius, notifications, lastReq, lastResp, inbox>>

\* sendEmailAndNotify returns or throws with the given outcome and the
\* handler runs to its response
Settle(in, outcome) ==
    LET req == [call.req EXCEPT !.notifier = outcome]
        out == IF call.kind = "capture"
               THEN Capture(req, call.at, allowedRadius)
               ELSE \* try { await sendEmailAndNotify(...) } catch { log }; 200
                    Resp(200, "exit_recorded", FALSE,
                         sendEmailAndNotify("", "", outcome).saved)
    IN  /\ call.fn = "sendMail"
        /\ out.save => Len(records) < in.cap
        /\ records' = IF out.save THEN Append(records, NewAttendance(req))
                      ELSE records
        /\ closeCount' = IF out.save THEN Append(closeCount, 0) ELSE closeCount
        /\ notifications' = notifications \cup out.notes
        /\ lastReq' = req
        /\ lastResp' = [status |-> out.status, reason |-> out.reason,
                        at |-> call.at]
        /\ call' = [fn |-> "settled", kind |-> call.kind, outcome |-> outcome,
                    status |-> out.status, timeout |-> call.timeout]
        /\ UNCHANGED <<now, allowedRadius, exitProc, inbox>>

\* the mail provider answers: sendMail resolves or rejects
MailSettle(in) == \E outcome \in {"ok", "mail_fail"} : Settle(in, outcome)

\* the timer of Promise.race fires first and rejects with "Email timeout"
MailTimeout(in) == call.fn = "sendMail" /\ call.timeout # None /\ Settle(in, "timeout")

NextMail ==
    \/ RecordAttendance(MailIn)
    \/ MailCapture(MailIn)
    \/ \E p \in MailIn.procs : RecordExitFind(MailIn, p)
    \/ \E p \in MailIn.procs :
          RecordExitSave(p) /\ ~recordExitUpdate(exitProc[p].req, exitProc[p].doc[1]).save
    \/ \E p \in MailIn.procs : MailExit(MailIn, p)
    \/ MailSettle(MailIn)
    \/ MailTimeout(MailIn)
    \/ Advance(MailInstants)

\* the provider may never answer; a timer that was set does fire
SpecMail == Init /\ [][NextMail]_vars /\ WF_vars(MailTimeout(MailIn))

\* C26: a request that has reached the notifier is eventually answered, even
\* when the mail provider never responds, and when the dispatch ended by its
\* timeout the answer is not a server error of the attendance pipeline.
C26_DispatchBounded ==
    (call.fn = "sendMail") ~>
        (call.fn = "settled" /\ (call.outcome = "timeout" => call.status # 500))

-----------------------------------------------------------------------------
(* Requests that name an employee who does not exist *)

\* both principals name e1 or an absent employee in every operation
MissingIn ==
    [cap       |-> MaxRecordsWide,
     procs     |-> {1},
     actors    |-> Actors,
     targets   |-> {"e1", "ghost"},
     offsets   |-> {0},
     locs      |-> {Center},
     methods   |-> {"manual"},
     tokens    |-> {[issued |-> FALSE, parses |-> TRUE, employeeId |-> "e1",
                     age |-> Some(0)],
                    [issued |-> FALSE, parses |-> TRUE, employeeId |-> "ghost",
                     age |-> Some(0)]},
     faces     |-> {Probe(0)},
     notifiers |-> {"ok"},
     exit      |-> [actors    |-> Actors,
                    targets   |-> {"e1", "ghost"},
                    offsets   |-> {0, 10},
                    locs      |-> {Center},
                    notifiers |-> {"ok"}],
     report    |-> [targets      |-> {"e1", "ghost"},
                    queries      |-> {Query("weekly", Some(StartOfDay10), None)},
                    fleetQueries |-> {}]]

NextMissing ==
    \/ RecordAttendance(MissingIn)
    \/ ScanQrCode(MissingIn)
    \/ FacialAttendance(MissingIn)
    \/ \E p \in MissingIn.procs : RecordExitFind(MissingIn, p)
    \/ \E p \in MissingIn.procs : RecordExitSave(p)
    \/ GetPresenceReport(MissingIn)

SpecMissing == Init /\ [][NextMissing]_vars

\* an entry or exit request was answered in this step
Answered ==
    /\ lastReq'.kind \in CaptureKinds \cup {"exit"}
    /\ <<lastReq', lastResp', records'>> # <<lastReq, lastResp, records>>

\* C27: a well-formed manual, QR, facial or exit request, or a per-employee
\* report request, that names an employee who does not exist is answered 404
\* and leaves the ledger as it was.
C27_MissingEmployeeNotFound ==
    [][/\ (/\ Answered
           /\ WellFormed(lastReq', lastResp'.at)
           /\ lastReq'.kind = "qr" => lastReq'.qr.parses
           /\ ~EmployeeExists(Target(lastReq')))
              => (lastResp'.status = 404 /\ records' = records)
       /\ (/\ call' # call
           /\ call'.fn = "getPresenceReport"
           /\ call'.q.period \in Periods /\ call'.q.startDate # None
           /\ IsMongoId(call'.employeeId)
           /\ ~EmployeeExists(call'.employeeId))
              => (call'.out.status = 404 /\ records' = records)]_vars

-----------------------------------------------------------------------------
(* The ledger over a sequence of completed operations *)

-----------------------------------------------------------------------------
(* recordExit by one principal for another *)

\* each principal records entries for either employee and exits for either
\* employee, 10 minutes after now
CrossIn ==
    [cap       |-> MaxRecords,
     procs     |-> {1},
     actors    |-> Actors,
     targets   |-> {"e1", "adm"},
     offsets   |-> {0},
     locs      |-> {Center},
     methods   |-> {"manual"},
     tokens    |-> {},
     faces     |-> {},
     notifiers |-> {"ok"},
     exit      |-> [actors    |-> Actors,
                    targets   |-> {"e1", "adm"},
                    offsets   |-> {0, 10},
                    locs      |-> {Center},
                    notifiers |-> {"ok"}]]

NextCross ==
    \/ RecordAttendance(CrossIn)
    \/ \E p \in CrossIn.procs : RecordExitFind(CrossIn, p)
    \/ \E p \in CrossIn.procs : RecordExitSave(p)

SpecCross == Init /\ [][NextCross]_vars

\* C29: the exit of a record is set only by a request of that record's
\* employee or of an admin; a non-admin who names another employee never sets
\* an exit on that employee's record.
C29_ExitOnlyByOwnerOrAdmin ==
    [][\A i \in DOMAIN records :
          records'[i].exitTime # records[i].exitTime =>
              \/ lastReq'.actor.role = "admin"
              \/ lastReq'.actor.id = records[i].employee]_vars

-----------------------------------------------------------------------------
(* The ledger under requests that are turned down *)

\* e1 names themself, the admin or an absent employee, on time and late,
\* with fresh and stale tokens, while the mail transport works or fails
FrameIn ==
    [cap       |-> MaxRecordsWide,
     procs     |-> {1},
     actors    |-> {a \in Actors : a.id = "e1"},
     targets   |-> {"e1", "adm", "ghost"},
     offsets   |-> {0, 10},
     locs      |-> {Center},
     methods   |-> {"manual"},
     tokens    |-> {[issued |-> FALSE, parses |-> TRUE, employeeId |-> "e1",
                     age |-> Some(0)],
                    [issued |-> FALSE, parses |-> TRUE, employeeId |-> "e1",
                     age |-> Some(6)]},
     faces     |-> {Probe(0)},
     notifiers |-> {"ok", "mail_fail"},
     exit      |-> [actors    |-> {a \in Actors : a.id = "e1"},
                    targets   |-> {"e1"},
                    offsets   |-> {0, 10},
                    locs      |-> {Center},
                    notifiers |-> {"ok"}]]

NextFrame ==
    \/ RecordAttendance(FrameIn)
    \/ ScanQrCode(FrameIn)
    \/ FacialAttendance(FrameIn)
    \/ \E p \in FrameIn.procs : RecordExitFind(FrameIn, p)
    \/ \E p \in FrameIn.procs : RecordExitSave(p)

SpecFrame == Init /\ [][NextFrame]_vars

\* C30: an entry or exit request answered 400, 401, 403, 404 or 500 leaves
\* the ledger as it was; a record is added only by a capture request answered
\* 201, and a record is changed only by an exit request answered 200.
C30_RejectedLeavesLedger ==
    [][/\ (Answered /\ lastResp'.status \in {400, 401, 403, 404, 500})
              => records' = records
       /\ Len(records') # Len(records)
              => /\ Len(records') = Len(records) + 1
                 /\ lastReq'.kind \in CaptureKinds
                 /\ lastResp'.status = 201
       /\ \A i \in DOMAIN records :
              records'[i] # records[i]
                  => lastReq'.kind = "exit" /\ lastResp'.status = 200]_vars

\* a late entry whose notification failed was answered 500 while the ledger
\* kept its one closed record
C30_ServerErrorKeptLedger ==
    /\ lastReq.kind \in CaptureKinds
    /\ lastResp.status = 500
    /\ Len(records) = 1
    /\ ~Open(1)

====
